---- MODULE Spec2Model ----
(***************************************************************************)
(* Elevation enrichment pipeline (scripts/etl/enrich-elevation.ts, kept in *)
(* src/unnamed/part_000): the elevation service client with retries, the   *)
(* geometry sampler, the profile interpolator, the batch orchestrator and  *)
(* its checkpoint files, as one state machine.                             *)
(*                                                                         *)
(* Units.  Elevations are whole metres; a raw service value is in tenths   *)
(* of a metre so that Math.round has something to round.  A trail length   *)
(* is in thousandths of a mile, a profile distance in hundredths of a mile *)
(* (the code rounds distances to two decimals), a geometry part length in  *)
(* tenths of a kilometre.  Arithmetic is exact (no floating point error).  *)
(* An optional value (T | null | undefined) is <<>> or <<v>>.              *)
(* Each writeFileSync is one atomic step; a crash falls between steps.     *)
(* The input file exists: its absence ends the process at line 271,        *)
(* before any file is written.                                             *)
(***************************************************************************)
EXTENDS Integers, Sequences, FiniteSets, TLC

VARIABLES
  inputFile,      \* INPUT_FILE: the trail records of the input dataset
  terrain,        \* what the service knows of each sampled point (see Terrains)
  limits,         \* USGS_PROFILE_LIMIT and CHECKPOINT_INTERVAL of the build
  outputFile,     \* OUTPUT_FILE: <<>> when absent, else <<trails>>
  progressFile,   \* PROGRESS_FILE: <<>> when absent, else <<Progress>>
  pc,             \* position of enrichTrailsWithElevation
  trails,         \* rawData.trails, mutated in place
  progress,       \* the Progress object of the run
  startIndex,     \* const startIndex
  usgsEligible,   \* const usgsEligible (a set of indices)
  i,              \* the loop variable of the trail loop
  points,         \* samplePoints' result for trail i
  b,              \* the loop variable of the batch loop
  lookups,        \* one getElevation call per sampled point
  elevResults,    \* elevResults of trail i
  outOfOrder,     \* (history) a lookup of trail i returned before one of a lower index
  sampledIdx,     \* (history) the trail points/lookups belong to, -1 if none
  pathOf,         \* (history) the branch each trail took in this run
  loaded,         \* (history) rawData.trails as this run loaded it
  loadedProgress, \* (history) the progress record as this run loaded it
  finalSaved,     \* (history) this run has done its final saveTrails
  summary,        \* the counts of the final report, <<>> until it is printed
  call,           \* a call of one of the pure helpers: its arguments
  ret,            \* that call's return value, <<>> until it returns
  runs,           \* (bound) crashes and re-runs so far
  faults          \* (bound) transient service failures during the current trail

vars == <<inputFile, terrain, limits, outputFile, progressFile, pc, trails,
          progress, startIndex, usgsEligible, i, points, b, lookups,
          elevResults, outOfOrder, sampledIdx, pathOf, loaded,
          loadedProgress, finalSaved, summary, call, ret, runs, faults>>

----------------------------------------------------------------------------
(* Configuration.  The four constants marked "scaled" are smaller than in  *)
(* the source (15, 100, 5, 25) so that a run of a handful of trails        *)
(* crosses every boundary they set: a second batch, a non-eligible trail,  *)
(* a checkpoint.                                                           *)
(* The eligibility limit and the checkpoint interval are read through the  *)
(* variable limits, which no step changes: every specification starts it   *)
(* at these two values (Build), except SpecTorn, whose scale lets three    *)
(* checkpoints happen within NumTrails trails.                             *)

\* line 25, scaled (15 in the source)
PROFILE_SAMPLES == 3
\* line 26
MAX_RETRIES == 3
\* line 27, scaled (100 in the source)
USGS_PROFILE_LIMIT == 1
\* line 28, scaled (5 in the source)
USGS_CONCURRENCY == 2
\* line 29, scaled (25 in the source)
CHECKPOINT_INTERVAL == 2
\* line 92: the service's "no data" value
SENTINEL == -1000000
\* line 171: numPoints = 10
DEFAULT_NUM_POINTS == 10

(* Bounds of the model. *)
NumTrails == 3
MaxRuns == 1
MaxFaults == 3
MaxParts == 2     \* coordinate sequences of a geometry handed to a helper
MaxSamples == 4   \* sample and point counts handed to a helper

None == <<>>
Some(v) == <<v>>

\* Math.round(p / q) for q > 0: the nearest integer, a half rounds up.
RoundDiv(p, q) == (2 * p + q) \div (2 * q)

----------------------------------------------------------------------------
(* The input datasets: every sequence of NumTrails trails over four kinds. *)

TrailKinds ==
  { \* long, min/max supplied, two usable parts and a one-coordinate part
    [length_miles |-> Some(2500), elevation_min_m |-> Some(2000),
     elevation_max_m |-> Some(2500),
     geometry |-> [parts |-> <<[n |-> 3, len |-> 12], [n |-> 1, len |-> 0],
                               [n |-> 2, len |-> 20]>>, bearing |-> "E"],
     elevation_min |-> None, elevation_max |-> None, elevation_gain |-> None,
     dominant_aspect |-> None, elevation_profile |-> <<>>],
    \* no length, no min/max, one usable part
    [length_miles |-> None, elevation_min_m |-> None, elevation_max_m |-> None,
     geometry |-> [parts |-> <<[n |-> 2, len |-> 30]>>, bearing |-> "NW"],
     elevation_min |-> None, elevation_max |-> None, elevation_gain |-> None,
     dominant_aspect |-> None, elevation_profile |-> <<>>],
    \* min supplied as 0, no usable part
    [length_miles |-> Some(1234), elevation_min_m |-> Some(0),
     elevation_max_m |-> Some(2500),
     geometry |-> [parts |-> <<[n |-> 1, len |-> 0]>>, bearing |-> "S"],
     elevation_min |-> None, elevation_max |-> None, elevation_gain |-> None,
     dominant_aspect |-> None, elevation_profile |-> <<>>],
    \* already enriched in the input
    [length_miles |-> Some(1234), elevation_min_m |-> Some(2100),
     elevation_max_m |-> Some(2200),
     geometry |-> [parts |-> <<[n |-> 2, len |-> 20]>>, bearing |-> "N"],
     elevation_min |-> Some(2100), elevation_max |-> Some(2200),
     elevation_gain |-> Some(100), dominant_aspect |-> Some("N"),
     elevation_profile |-> <<[distance_mi |-> 0, elevation_m |-> 2100],
                             [distance_mi |-> 123, elevation_m |-> 2200]>>] }

Datasets == [0 .. NumTrails - 1 -> TrailKinds]

\* What the service may answer with a 200: no value field, the sentinel, or
\* an elevation (tenths of a metre).
ServiceValues == {None, Some(SENTINEL * 10), Some(20004), Some(20255)}

\* A service that answers the same for the same point: the value it holds for
\* the k-th sample of a trail.  Rising ground; ground with no data at the
\* first sample and falling after it; no value anywhere.
Terrains ==
  { [k \in 1 .. PROFILE_SAMPLES |-> Some(20004 + 251 * k)],
    [k \in 1 .. PROFILE_SAMPLES |->
       IF k = 1 THEN Some(SENTINEL * 10) ELSE Some(30255 - 251 * k)],
    [k \in 1 .. PROFILE_SAMPLES |-> None] }

----------------------------------------------------------------------------
(* getElevation: the decisions of one response.                            *)

\* Mutant: the sentinel is not recognised.
IsKnownValue_NoSentinel(v) == v # None

\* data.value !== undefined && data.value !== -1000000
IsKnownValue(v) == v # None /\ v[1] # SENTINEL * 10

\* Math.round(data.value), the raw value being in tenths of a metre
RoundValue(v) == RoundDiv(v[1], 10)

\* if (attempt < MAX_RETRIES) await the backoff timer
NeedsBackoff(attempt) == attempt < MAX_RETRIES

\* Mutant: the loop has no bound.
LoopContinues_Unbounded(attempt) == TRUE

\* Mutant: the loop bound is strict, the last attempt is never made.
LoopContinues_StrictBound(attempt) == attempt + 1 < MAX_RETRIES

\* for (...; attempt <= MAX_RETRIES; attempt++): another attempt follows
LoopContinues(attempt) == attempt + 1 <= MAX_RETRIES

\* (history) what a 200 response carried
ResponseKind(v) ==
  IF v = None THEN "novalue"
  ELSE IF v[1] = SENTINEL * 10 THEN "nodata" ELSE "value"

IdleLookup ==
  [st |-> "idle", attempt |-> 0, delays |-> 0, last |-> "none", result |-> None]

----------------------------------------------------------------------------
(* samplePoints.                                                           *)

\* Mutant: a part of length 0 is kept as a segment.
Segments_KeepsZeroLength(geometry) ==
  SelectSeq(geometry.parts, LAMBDA p : p.n >= 2)

\* coords.length >= 2 and lengthKm > 0
Segments(geometry) ==
  SelectSeq(geometry.parts, LAMBDA p : p.n >= 2 /\ p.len > 0)

RECURSIVE SumLen(_)
SumLen(segs) == IF segs = <<>> THEN 0 ELSE Head(segs).len + SumLen(Tail(segs))

\* The segment holding the target and the offset within it.  Offsets and the
\* target are numerators over den = numSamples - 1.
RECURSIVE FindSegment(_, _, _, _, _)
FindSegment(segs, j, accumulated, target, den) ==
  IF accumulated + segs[j].len * den >= target \/ j = Len(segs)
  THEN LET withinSeg == IF target - accumulated < segs[j].len * den
                        THEN target - accumulated ELSE segs[j].len * den
       IN  [seg |-> j, off |-> IF withinSeg > 0 THEN withinSeg ELSE 0]
  ELSE FindSegment(segs, j + 1, accumulated + segs[j].len * den, target, den)

\* Mutant: the fraction is i / numSamples, the last sample stops short.
SampleDistance_ShortFraction(k, numSamples, trailLengthMi, totalLengthKm) ==
  IF trailLengthMi # None /\ trailLengthMi[1] # 0
  THEN RoundDiv(k * trailLengthMi[1], 10 * numSamples)
  ELSE RoundDiv(k * totalLengthKm * 621371, 100000 * numSamples)

\* trailLengthMi || totalLengthKm * 0.621371, times 100 times fraction, rounded
SampleDistance(k, numSamples, trailLengthMi, totalLengthKm) ==
  IF numSamples = 1 THEN 0
  ELSE IF trailLengthMi # None /\ trailLengthMi[1] # 0
       THEN RoundDiv(k * trailLengthMi[1], 10 * (numSamples - 1))
       ELSE RoundDiv(k * totalLengthKm * 621371, 100000 * (numSamples - 1))

samplePoints(geometry, numSamples, trailLengthMi) ==
  LET segs == Segments(geometry)
      totalLengthKm == SumLen(segs)
      den == IF numSamples = 1 THEN 1 ELSE numSamples - 1
  IN  IF segs = <<>> THEN <<>>
      ELSE [k \in 1 .. numSamples |->
              [at |-> FindSegment(segs, 1, 0,
                                  IF numSamples = 1 THEN 0
                                  ELSE (k - 1) * totalLengthKm, den),
               distanceMi |-> SampleDistance(k - 1, numSamples, trailLengthMi,
                                             totalLengthKm)]]

----------------------------------------------------------------------------
(* interpolateProfile and calculateDominantAspect.                         *)

\* a ?? b ?? c
Coalesce3(a, b_, c) == IF a # None THEN a[1] ELSE IF b_ # None THEN b_[1] ELSE c

interpolateProfile(trail, numPoints) ==
  LET minElev == Coalesce3(trail.elevation_min_m, trail.elevation_min, 2000)
      maxElev == Coalesce3(trail.elevation_max_m, trail.elevation_max, 2500)
      lengthMi == IF trail.length_miles # None THEN trail.length_miles[1] ELSE 1000
      den == IF numPoints = 1 THEN 1 ELSE numPoints - 1
      \* t = fraction <= 0.5 ? fraction * 2 : 2 - fraction * 2, over den
      tNum(k) == IF numPoints = 1 THEN 0
                 ELSE IF 2 * k <= den THEN 2 * k ELSE 2 * den - 2 * k
  IN  [p \in 1 .. numPoints |->
         [distance_mi |-> IF numPoints = 1 THEN 0
                          ELSE RoundDiv((p - 1) * lengthMi, 10 * den),
          elevation_m |-> minElev + RoundDiv(tNum(p - 1) * (maxElev - minElev), den)]]

RECURSIVE CoordCount(_)
CoordCount(parts) ==
  IF parts = <<>> THEN 0 ELSE Head(parts).n + CoordCount(Tail(parts))

\* The octant of the circular mean bearing; the trigonometry is carried by
\* the geometry's bearing.  Fewer than two coordinates: null.
calculateDominantAspect(geometry) ==
  IF CoordCount(geometry.parts) < 2 THEN None ELSE Some(geometry.bearing)

----------------------------------------------------------------------------
(* The orchestrator's pure parts.                                          *)

\* Mutant: the skip test never holds.
HasProfile_Never(trail) == FALSE

\* trail.elevation_profile && trail.elevation_profile.length > 0
HasProfile(trail) == Len(trail.elevation_profile) > 0

\* t.length_miles || 0
LengthOrZero(trail) ==
  IF trail.length_miles = None THEN 0 ELSE trail.length_miles[1]

\* Mutant: the sort is ascending, the shortest trails come first.
EligibleSet_Shortest(ts) ==
  LET before(j, k) == \/ LengthOrZero(ts[j]) < LengthOrZero(ts[k])
                      \/ LengthOrZero(ts[j]) = LengthOrZero(ts[k]) /\ j < k
  IN  {k \in DOMAIN ts :
         Cardinality({j \in DOMAIN ts : before(j, k)}) < limits.profileLimit}

\* The first USGS_PROFILE_LIMIT indices of the (stable) sort by descending
\* length: those with fewer than that many trails ranked before them.
EligibleSet(ts) ==
  LET before(j, k) == \/ LengthOrZero(ts[j]) > LengthOrZero(ts[k])
                      \/ LengthOrZero(ts[j]) = LengthOrZero(ts[k]) /\ j < k
  IN  {k \in DOMAIN ts :
         Cardinality({j \in DOMAIN ts : before(j, k)}) < limits.profileLimit}

\* Mutant: the index within the batch, without the batch's offset.
ResultIdx_WithinBatch(bb, bIdx) == bIdx

\* { idx: b + bIdx, ... }
ResultIdx(bb, bIdx) == bb + bIdx

\* Promise.all's array for the batch starting at sample bb (0-based): one
\* entry per batch position, whatever order the lookups returned in.
BatchResults(pts, lks, bb) ==
  LET size == IF Len(pts) - bb < USGS_CONCURRENCY
              THEN Len(pts) - bb ELSE USGS_CONCURRENCY
  IN  [k \in 1 .. size |->
         [idx |-> ResultIdx(bb, k - 1), distanceMi |-> pts[bb + k].distanceMi,
          elevation |-> lks[bb + k].result]]

\* elevResults.sort((a, b) => a.idx - b.idx): a stable insertion sort
RECURSIVE InsertByIdx(_, _)
InsertByIdx(sorted, r) ==
  IF sorted = <<>> THEN <<r>>
  ELSE IF sorted[Len(sorted)].idx <= r.idx THEN Append(sorted, r)
       ELSE Append(InsertByIdx(SubSeq(sorted, 1, Len(sorted) - 1), r),
                   sorted[Len(sorted)])

RECURSIVE SortByIdx(_)
SortByIdx(rs) ==
  IF rs = <<>> THEN <<>>
  ELSE InsertByIdx(SortByIdx(SubSeq(rs, 1, Len(rs) - 1)), rs[Len(rs)])

\* Mutant: every delta is added, descents included.
GainStep_EveryDelta(gain, prevElev, elevation) ==
  IF prevElev # None THEN gain + (elevation - prevElev[1]) ELSE gain

\* if (prevElev !== null && r.elevation > prevElev) gain += r.elevation - prevElev
GainStep(gain, prevElev, elevation) ==
  IF prevElev # None /\ elevation > prevElev[1]
  THEN gain + (elevation - prevElev[1]) ELSE gain

\* Mutant: an unknown point resets prevElev, the next delta is dropped.
RECURSIVE BuildFrom_ResetsOnUnknown(_, _)
BuildFrom_ResetsOnUnknown(rs, acc) ==
  IF rs = <<>> THEN acc
  ELSE LET r == Head(rs)
       IN  IF r.elevation # None
           THEN BuildFrom_ResetsOnUnknown(Tail(rs),
                  [profile |-> Append(acc.profile,
                                 [distance_mi |-> r.distanceMi,
                                  elevation_m |-> r.elevation[1]]),
                   gain |-> GainStep(acc.gain, acc.prevElev, r.elevation[1]),
                   prevElev |-> r.elevation])
           ELSE BuildFrom_ResetsOnUnknown(Tail(rs), [acc EXCEPT !.prevElev = None])

\* for (const r of elevResults) { ... }: profile, gain and prevElev
RECURSIVE BuildFrom(_, _)
BuildFrom(rs, acc) ==
  IF rs = <<>> THEN acc
  ELSE LET r == Head(rs)
       IN  IF r.elevation # None
           THEN BuildFrom(Tail(rs),
                  [profile |-> Append(acc.profile,
                                 [distance_mi |-> r.distanceMi,
                                  elevation_m |-> r.elevation[1]]),
                   gain |-> GainStep(acc.gain, acc.prevElev, r.elevation[1]),
                   prevElev |-> r.elevation])
           ELSE BuildFrom(Tail(rs), acc)

BuildProfileOf(rs) ==
  BuildFrom(SortByIdx(rs), [profile |-> <<>>, gain |-> 0, prevElev |-> None])

MinElevation(profile) ==
  CHOOSE m \in {profile[k].elevation_m : k \in DOMAIN profile} :
    \A k \in DOMAIN profile : m <= profile[k].elevation_m

MaxElevation(profile) ==
  CHOOSE m \in {profile[k].elevation_m : k \in DOMAIN profile} :
    \A k \in DOMAIN profile : m >= profile[k].elevation_m

\* trail.elevation_max && trail.elevation_min ? Math.round((max - min) / 2) : null
HalfSpreadGain(trail) ==
  IF /\ trail.elevation_max # None /\ trail.elevation_max[1] # 0
     /\ trail.elevation_min # None /\ trail.elevation_min[1] # 0
  THEN Some(RoundDiv(trail.elevation_max[1] - trail.elevation_min[1], 2))
  ELSE None

\* Mutant: the supplied min/max are not taken over, only the aspect is set.
WithBaseFields_NoMinMax(trail) ==
  [trail EXCEPT !.elevation_min = None, !.elevation_max = None,
                !.dominant_aspect = calculateDominantAspect(trail.geometry)]

\* lines 317-321: COTREX min/max and the aspect
WithBaseFields(trail) ==
  [trail EXCEPT !.elevation_min = trail.elevation_min_m,
                !.elevation_max = trail.elevation_max_m,
                !.dominant_aspect = calculateDominantAspect(trail.geometry)]

\* lines 361-381: the try block once every batch has been gathered
WithUsgsProfile(trail, rs) ==
  LET built == BuildProfileOf(rs)
  IN  IF Len(built.profile) > 0
      THEN [trail EXCEPT
              !.elevation_profile = built.profile,
              !.elevation_gain = Some(built.gain),
              !.elevation_min = IF trail.elevation_min = None
                                THEN Some(MinElevation(built.profile))
                                ELSE trail.elevation_min,
              !.elevation_max = IF trail.elevation_max = None
                                THEN Some(MaxElevation(built.profile))
                                ELSE trail.elevation_max]
      ELSE [trail EXCEPT
              !.elevation_profile = interpolateProfile(trail, DEFAULT_NUM_POINTS),
              !.elevation_gain = HalfSpreadGain(trail)]

\* Mutant: the catch block sets the gain as the interpolated branches do.
WithErrorFallback_HalfSpread(trail) ==
  [trail EXCEPT
     !.elevation_profile = interpolateProfile(trail, DEFAULT_NUM_POINTS),
     !.elevation_gain =
       IF trail.elevation_max # None /\ trail.elevation_min # None
       THEN Some(RoundDiv(trail.elevation_max[1] - trail.elevation_min[1], 2))
       ELSE None]

\* lines 384-389: the catch block
WithErrorFallback(trail) ==
  [trail EXCEPT
     !.elevation_profile = interpolateProfile(trail, DEFAULT_NUM_POINTS),
     !.elevation_gain = None]

\* lines 396-399: the non-eligible branch
WithInterpolated(trail) ==
  [trail EXCEPT
     !.elevation_profile = interpolateProfile(trail, DEFAULT_NUM_POINTS),
     !.elevation_gain = HalfSpreadGain(trail)]

\* Mutant: a checkpoint at every interval boundary, eligible trail or not.
CheckpointDue_AnyTrail(idx, eligible) ==
  (idx + 1) % limits.checkpointInterval = 0

\* (i + 1) % CHECKPOINT_INTERVAL === 0 && usgsEligible.has(i)
CheckpointDue(idx, eligible) ==
  (idx + 1) % limits.checkpointInterval = 0 /\ idx \in eligible

FreshProgress ==
  [lastProcessedIndex |-> -1, processedCount |-> 0, errorCount |-> 0,
   usgsCallCount |-> 0]

\* loadProgress
loadProgress(file) == IF file # None THEN file[1] ELSE FreshProgress

\* Mutant: resumes at the trail the progress record names, not the one after it.
StartIndexOf_SameTrail(p) ==
  IF p.lastProcessedIndex < 0 THEN 0 ELSE p.lastProcessedIndex

\* const startIndex = progress.lastProcessedIndex + 1
StartIndexOf(p) == p.lastProcessedIndex + 1

\* line 432: a profile longer than this many entries is reported as
\* service-derived.  The source's order is kept: no sampled profile
\* (at most PROFILE_SAMPLES entries) and no interpolated one
\* (DEFAULT_NUM_POINTS entries) is longer than it.
USGS_REPORT_THRESHOLD == 15

\* lines 427-443: the counts the final report prints
Stats(ts, prog) ==
  LET withProfile ==
        Cardinality({j \in DOMAIN ts : Len(ts[j].elevation_profile) > 0})
      usgsProfiles ==
        Cardinality({j \in DOMAIN ts :
                       Len(ts[j].elevation_profile) > USGS_REPORT_THRESHOLD})
  IN  [withProfile |-> withProfile,
       usgsProfiles |-> usgsProfiles,
       interpolated |-> withProfile - usgsProfiles,
       withAspect |-> Cardinality({j \in DOMAIN ts : ts[j].dominant_aspect # None}),
       usgsCallCount |-> prog.usgsCallCount,
       errorCount |-> prog.errorCount]

\* Mutant: a resumed run keeps the trails of the input file.
LoadedTrails_InputOnly(start, output, input) == input

\* lines 275, 282-290: the input's trails, replaced by the output file's on
\* a resumed run when that file exists
LoadedTrails(start, output, input) ==
  IF start > 0 /\ output # None THEN output[1] ELSE input

----------------------------------------------------------------------------
(* The state machine.                                                      *)

Total == NumTrails   \* trails.length

NoMemory ==
  /\ trails' = <<>>
  /\ progress' = FreshProgress
  /\ startIndex' = 0
  /\ usgsEligible' = {}
  /\ i' = 0
  /\ points' = <<>>
  /\ b' = 0
  /\ lookups' = <<>>
  /\ elevResults' = <<>>
  /\ outOfOrder' = FALSE
  /\ sampledIdx' = -1
  /\ pathOf' = <<>>
  /\ loaded' = <<>>
  /\ loadedProgress' = FreshProgress
  /\ finalSaved' = FALSE
  /\ summary' = None

\* The script is about to start: nothing in memory.
NoProcess ==
  /\ pc = "start"
  /\ trails = <<>>
  /\ progress = FreshProgress
  /\ startIndex = 0
  /\ usgsEligible = {}
  /\ i = 0
  /\ points = <<>>
  /\ b = 0
  /\ lookups = <<>>
  /\ elevResults = <<>>
  /\ outOfOrder = FALSE
  /\ sampledIdx = -1
  /\ pathOf = <<>>
  /\ loaded = <<>>
  /\ loadedProgress = FreshProgress
  /\ finalSaved = FALSE
  /\ summary = None
  /\ runs = 0
  /\ faults = 0

\* The build of lines 27 and 29, at the scale of this model.
Build ==
  [profileLimit |-> USGS_PROFILE_LIMIT, checkpointInterval |-> CHECKPOINT_INTERVAL]

\* No process has run yet: no output file, no progress file, nothing in memory.
NothingRun ==
  /\ outputFile = None
  /\ progressFile = None
  /\ NoProcess

Init ==
  /\ inputFile \in Datasets
  /\ terrain \in Terrains
  /\ limits = Build
  /\ call = None
  /\ ret = None
  /\ NothingRun

\* lines 275-304: read the input, load the progress, resume from the output
\* file, choose the eligible trails.
StartRun ==
  /\ pc = "start"
  /\ LET p == loadProgress(progressFile)
         start == StartIndexOf(p)
         ts == LoadedTrails(start, outputFile, inputFile)
     IN  /\ progress' = p
         /\ startIndex' = start
         /\ trails' = ts
         /\ usgsEligible' = EligibleSet(ts)
         /\ i' = start
         /\ loaded' = ts
         /\ loadedProgress' = p
         /\ pathOf' = [k \in 0 .. Total - 1 |-> "none"]
  /\ pc' = "loop"
  /\ UNCHANGED <<inputFile, terrain, limits, call, ret, outputFile,
                 progressFile, points, b, lookups, elevResults, outOfOrder,
                 sampledIdx, finalSaved, summary, runs, faults>>

\* lines 407-416: the end of an iteration, given the trail's new record and
\* the progress counters after its branch.
AfterTrail(trail, prog, path) ==
  /\ trails' = [trails EXCEPT ![i] = trail]
  /\ progress' = [prog EXCEPT !.lastProcessedIndex = i]
  /\ pathOf' = [pathOf EXCEPT ![i] = path]
  /\ faults' = 0
  /\ points' = <<>> /\ lookups' = <<>> /\ elevResults' = <<>> /\ b' = 0
  /\ IF CheckpointDue(i, usgsEligible)
     THEN pc' = "ckpt_trails" /\ i' = i
     ELSE pc' = "loop" /\ i' = i + 1

\* lines 309-312: continue
SkipTrail ==
  /\ pc = "loop" /\ i < Total
  /\ HasProfile(trails[i])
  /\ i' = i + 1
  /\ UNCHANGED <<inputFile, terrain, limits, call, ret, outputFile,
                 progressFile, pc, trails, progress, startIndex,
                 usgsEligible, points, b, lookups, elevResults, outOfOrder,
                 sampledIdx, pathOf, loaded, loadedProgress, summary,
                 finalSaved, runs, faults>>

\* lines 316-321, 390-405: a trail outside the eligible set
EnrichInterpolated ==
  /\ pc = "loop" /\ i < Total
  /\ ~HasProfile(trails[i])
  /\ i \notin usgsEligible
  /\ AfterTrail(WithInterpolated(WithBaseFields(trails[i])),
                [progress EXCEPT !.processedCount = @ + 1], "interpolated")
  /\ UNCHANGED <<inputFile, terrain, limits, call, ret, outputFile,
                 progressFile, startIndex, usgsEligible, outOfOrder,
                 sampledIdx, loaded, loadedProgress, summary, finalSaved,
                 runs>>

\* lines 316-331: an eligible trail up to the batch loop
BeginUsgs ==
  /\ pc = "loop" /\ i < Total
  /\ ~HasProfile(trails[i])
  /\ i \in usgsEligible
  /\ trails' = [trails EXCEPT ![i] = WithBaseFields(trails[i])]
  /\ LET pts == samplePoints(trails[i].geometry, PROFILE_SAMPLES,
                             trails[i].length_miles)
     IN  /\ points' = pts
         /\ lookups' = [k \in 1 .. Len(pts) |-> IdleLookup]
  /\ elevResults' = <<>>
  /\ outOfOrder' = FALSE
  /\ sampledIdx' = i
  /\ b' = 0
  /\ pc' = "batch"
  /\ UNCHANGED <<inputFile, terrain, limits, call, ret, outputFile,
                 progressFile, progress, startIndex, usgsEligible, i, pathOf,
                 loaded, loadedProgress, summary, finalSaved, runs, faults>>

\* Mutant: the slice has no upper end, every remaining point is started.
BatchOf_NoUpperEnd(pts, bb) == {k \in 1 .. Len(pts) : bb < k}

\* points.slice(b, b + USGS_CONCURRENCY), as 1-based sample positions
BatchOf(pts, bb) ==
  {k \in 1 .. Len(pts) : bb < k /\ k <= bb + USGS_CONCURRENCY}

\* lines 333-337: batch.map starts every lookup of the batch, each up to its
\* first fetch.
StartBatch ==
  /\ pc = "batch" /\ b < Len(points)
  /\ lookups' = [k \in DOMAIN lookups |->
                   IF k \in BatchOf(points, b)
                   THEN [IdleLookup EXCEPT !.st = "fetch", !.attempt = 1]
                   ELSE lookups[k]]
  /\ pc' = "await"
  /\ UNCHANGED <<inputFile, terrain, limits, call, ret, outputFile,
                 progressFile, trails, progress, startIndex, usgsEligible, i,
                 points, b, elevResults, outOfOrder, sampledIdx, pathOf,
                 loaded, loadedProgress, summary, finalSaved, runs, faults>>

\* Mutant: the counter is moved by the attempts the lookup made.
Returned_CountsAttempts(k, r, last) ==
  /\ lookups' = [lookups EXCEPT ![k].st = "done", ![k].result = r,
                                ![k].last = last]
  /\ progress' = [progress EXCEPT !.usgsCallCount = @ + lookups[k].attempt]
  /\ outOfOrder' = (outOfOrder \/ \E j \in 1 .. k - 1 : lookups[j].st # "done")

\* getElevation returned r for sample k: line 338 runs.
Returned(k, r, last) ==
  /\ lookups' = [lookups EXCEPT ![k].st = "done", ![k].result = r,
                                ![k].last = last]
  /\ progress' = [progress EXCEPT !.usgsCallCount = @ + 1]
  /\ outOfOrder' = (outOfOrder \/ \E j \in 1 .. k - 1 : lookups[j].st # "done")

\* lines 84-96: a 200 response carrying v
RespondData(k, v) ==
  /\ pc = "await" /\ lookups[k].st = "fetch"
  /\ IF IsKnownValue(v)
     THEN Returned(k, Some(RoundValue(v)), ResponseKind(v))
     ELSE Returned(k, None, ResponseKind(v))
  /\ UNCHANGED <<inputFile, terrain, limits, call, ret, outputFile,
                 progressFile, pc, trails, startIndex, usgsEligible, i,
                 points, b, elevResults, sampledIdx, pathOf, loaded,
                 loadedProgress, summary, finalSaved, runs, faults>>

\* lines 86-88, 97-104: a non-2xx status or a thrown error
RespondFailure(k) ==
  /\ pc = "await" /\ lookups[k].st = "fetch"
  /\ faults < MaxFaults
  /\ faults' = faults + 1
  /\ IF NeedsBackoff(lookups[k].attempt)
     THEN /\ lookups' = [lookups EXCEPT ![k].st = "backoff", ![k].last = "fail"]
          /\ UNCHANGED <<progress, outOfOrder>>
     ELSE IF LoopContinues(lookups[k].attempt)
          THEN /\ lookups' = [lookups EXCEPT ![k].attempt = @ + 1,
                                             ![k].last = "fail"]
               /\ UNCHANGED <<progress, outOfOrder>>
          ELSE Returned(k, None, "fail")
  /\ UNCHANGED <<inputFile, terrain, limits, call, ret, outputFile,
                 progressFile, pc, trails, startIndex, usgsEligible, i,
                 points, b, elevResults, sampledIdx, pathOf, loaded,
                 loadedProgress, summary, finalSaved, runs>>

\* line 99: the backoff timer fires; the loop goes on to the next attempt
TimerFires(k) ==
  /\ pc = "await" /\ lookups[k].st = "backoff"
  /\ IF LoopContinues(lookups[k].attempt)
     THEN /\ lookups' = [lookups EXCEPT ![k].st = "fetch", ![k].attempt = @ + 1,
                                        ![k].delays = @ + 1]
          /\ UNCHANGED <<progress, outOfOrder>>
     ELSE /\ lookups' = [lookups EXCEPT ![k].st = "done", ![k].result = None,
                                        ![k].delays = @ + 1]
          /\ progress' = [progress EXCEPT !.usgsCallCount = @ + 1]
          /\ outOfOrder' = (outOfOrder \/ \E j \in 1 .. k - 1 : lookups[j].st # "done")
  /\ UNCHANGED <<inputFile, terrain, limits, call, ret, outputFile,
                 progressFile, pc, trails, startIndex, usgsEligible, i,
                 points, b, elevResults, sampledIdx, pathOf, loaded,
                 loadedProgress, summary, finalSaved, runs, faults>>

\* Mutant: the results are pushed without waiting for the batch.
JoinBatch_NoWait ==
  /\ pc = "await"
  /\ elevResults' = elevResults \o BatchResults(points, lookups, b)
  /\ lookups' = [k \in DOMAIN lookups |->
                   IF lookups[k].st = "done"
                   THEN [IdleLookup EXCEPT !.st = "done",
                                           !.result = lookups[k].result]
                   ELSE lookups[k]]
  /\ b' = b + USGS_CONCURRENCY
  /\ pc' = "batch"
  /\ UNCHANGED <<inputFile, terrain, limits, call, ret, outputFile,
                 progressFile, trails, progress, startIndex, usgsEligible, i,
                 points, outOfOrder, sampledIdx, pathOf, loaded,
                 loadedProgress, summary, finalSaved, runs, faults>>

\* lines 335-343: Promise.all resolves, the results are pushed
JoinBatch ==
  /\ pc = "await"
  /\ \A k \in BatchOf(points, b) : lookups[k].st = "done"
  /\ elevResults' = elevResults \o BatchResults(points, lookups, b)
  /\ lookups' = [k \in DOMAIN lookups |->
                   IF lookups[k].st = "done"
                   THEN [IdleLookup EXCEPT !.st = "done",
                                           !.result = lookups[k].result]
                   ELSE lookups[k]]
  /\ b' = b + USGS_CONCURRENCY
  /\ pc' = "batch"
  /\ UNCHANGED <<inputFile, terrain, limits, call, ret, outputFile,
                 progressFile, trails, progress, startIndex, usgsEligible, i,
                 points, outOfOrder, sampledIdx, pathOf, loaded,
                 loadedProgress, summary, finalSaved, runs, faults>>

\* lines 345-383: every batch is in; build the profile
BuildProfile ==
  /\ pc = "batch" /\ b >= Len(points)
  /\ LET trail == WithUsgsProfile(trails[i], elevResults)
     IN  AfterTrail(trail, [progress EXCEPT !.processedCount = @ + 1],
                    IF Len(BuildProfileOf(elevResults).profile) > 0
                    THEN "usgs" ELSE "fallback")
  /\ UNCHANGED <<inputFile, terrain, limits, call, ret, outputFile,
                 progressFile, startIndex, usgsEligible, outOfOrder,
                 sampledIdx, loaded, loadedProgress, summary, finalSaved,
                 runs>>

\* lines 384-389: something in the try block threw
UnexpectedFailure ==
  /\ pc = "batch"
  /\ AfterTrail(WithErrorFallback(trails[i]),
                [progress EXCEPT !.errorCount = @ + 1], "error")
  /\ UNCHANGED <<inputFile, terrain, limits, call, ret, outputFile,
                 progressFile, startIndex, usgsEligible, outOfOrder,
                 sampledIdx, loaded, loadedProgress, summary, finalSaved,
                 runs>>

\* Mutant: the checkpoint goes on to the progress record without writing the
\* dataset.
SaveCheckpointTrails_NoWrite ==
  /\ pc = "ckpt_trails"
  /\ pc' = "ckpt_progress"
  /\ UNCHANGED <<inputFile, terrain, limits, call, ret, outputFile,
                 progressFile, trails, progress, startIndex, usgsEligible, i,
                 points, b, lookups, elevResults, outOfOrder, sampledIdx,
                 pathOf, loaded, loadedProgress, summary, finalSaved, runs,
                 faults>>

\* line 414: saveTrails at a checkpoint
SaveCheckpointTrails ==
  /\ pc = "ckpt_trails"
  /\ outputFile' = Some(trails)
  /\ pc' = "ckpt_progress"
  /\ UNCHANGED <<inputFile, terrain, limits, call, ret, progressFile, trails,
                 progress, startIndex, usgsEligible, i, points, b, lookups,
                 elevResults, outOfOrder, sampledIdx, pathOf, loaded,
                 loadedProgress, summary, finalSaved, runs, faults>>

\* line 415: saveProgress at a checkpoint
SaveCheckpointProgress ==
  /\ pc = "ckpt_progress"
  /\ progressFile' = Some(progress)
  /\ i' = i + 1
  /\ pc' = "loop"
  /\ UNCHANGED <<inputFile, terrain, limits, call, ret, outputFile, trails,
                 progress, startIndex, usgsEligible, points, b, lookups,
                 elevResults, outOfOrder, sampledIdx, pathOf, loaded,
                 loadedProgress, summary, finalSaved, runs, faults>>

\* lines 419-420: the loop is over; the final saveTrails
FinalSave ==
  /\ pc = "loop" /\ i >= Total
  /\ outputFile' = Some(trails)
  /\ finalSaved' = TRUE
  /\ pc' = "cleanup"
  /\ UNCHANGED <<inputFile, terrain, limits, call, ret, progressFile, trails,
                 progress, startIndex, usgsEligible, i, points, b, lookups,
                 elevResults, outOfOrder, sampledIdx, pathOf, loaded,
                 loadedProgress, summary, runs, faults>>

\* Mutant: the run ends without unlinking the progress file.
CleanUp_KeepsFile ==
  /\ pc = "cleanup"
  /\ summary' = Some(Stats(trails, progress))
  /\ pc' = "done"
  /\ UNCHANGED <<inputFile, terrain, limits, call, ret, outputFile,
                 progressFile, trails, progress, startIndex, usgsEligible, i,
                 points, b, lookups, elevResults, outOfOrder, sampledIdx,
                 pathOf, loaded, loadedProgress, finalSaved, runs, faults>>

\* lines 422-444: unlink the progress file if it exists, print the report
CleanUp ==
  /\ pc = "cleanup"
  /\ progressFile' = None
  /\ summary' = Some(Stats(trails, progress))
  /\ pc' = "done"
  /\ UNCHANGED <<inputFile, terrain, limits, call, ret, outputFile, trails,
                 progress, startIndex, usgsEligible, i, points, b, lookups,
                 elevResults, outOfOrder, sampledIdx, pathOf, loaded,
                 loadedProgress, finalSaved, runs, faults>>

\* The process dies; only the files survive.  The script is started again.
Crash ==
  /\ pc \notin {"start", "done"}
  /\ runs < MaxRuns
  /\ runs' = runs + 1
  /\ pc' = "start"
  /\ NoMemory
  /\ faults' = 0
  /\ UNCHANGED <<inputFile, terrain, limits, call, ret, outputFile,
                 progressFile>>

\* The script is run again after a completed run.
Rerun ==
  /\ pc = "done"
  /\ runs < MaxRuns
  /\ runs' = runs + 1
  /\ pc' = "start"
  /\ NoMemory
  /\ faults' = 0
  /\ UNCHANGED <<inputFile, terrain, limits, call, ret, outputFile,
                 progressFile>>

\* The orchestrator's own steps.
Orchestrate ==
  \/ StartRun
  \/ SkipTrail
  \/ EnrichInterpolated
  \/ BeginUsgs
  \/ StartBatch
  \/ JoinBatch
  \/ BuildProfile
  \/ UnexpectedFailure
  \/ SaveCheckpointTrails
  \/ SaveCheckpointProgress
  \/ FinalSave
  \/ CleanUp

\* Runs that crash and are started again, against a service that answers
\* every request with what the terrain holds.
Next ==
  \/ Orchestrate
  \/ \E k \in 1 .. PROFILE_SAMPLES : RespondData(k, terrain[k])
  \/ Crash
  \/ Rerun

Spec == Init /\ [][Next]_vars

\* The same runs when nothing in the try block throws: the steps of the
\* orchestrator but the catch block.
NextResume ==
  \/ StartRun
  \/ SkipTrail
  \/ EnrichInterpolated
  \/ BeginUsgs
  \/ StartBatch
  \/ JoinBatch
  \/ BuildProfile
  \/ SaveCheckpointTrails
  \/ SaveCheckpointProgress
  \/ FinalSave
  \/ CleanUp
  \/ \E k \in 1 .. PROFILE_SAMPLES : RespondData(k, terrain[k])
  \/ Crash
  \/ Rerun

SpecResume == Init /\ [][NextResume]_vars

\* The script started with a progress record on disk and no output file: the
\* state line 284 tests for (the output file was removed, the record was
\* not).  The record names any trail k as the last one processed, with the
\* counts of k + 1 trails processed without failure.
StaleProgress(k) ==
  [lastProcessedIndex |-> k, processedCount |-> k + 1, errorCount |-> 0,
   usgsCallCount |-> 0]

InitStale ==
  /\ inputFile \in Datasets
  /\ terrain \in Terrains
  /\ limits = Build
  /\ call = None
  /\ ret = None
  /\ outputFile = None
  /\ progressFile \in {Some(StaleProgress(k)) : k \in 0 .. NumTrails - 1}
  /\ NoProcess

SpecStale == InitStale /\ [][Next]_vars

\* The same runs of a build whose limit takes in every trail, or every trail
\* but one, and whose checkpoint interval is one trail: every eligible trail
\* is followed by a checkpoint, so that a run of NumTrails trails holds as
\* many checkpoints as a run of the source's build holds over 75 trails.
InitTorn ==
  /\ inputFile \in Datasets
  /\ terrain \in Terrains
  /\ limits \in {[profileLimit |-> n, checkpointInterval |-> 1] :
                    n \in {NumTrails - 1, NumTrails}}
  /\ call = None
  /\ ret = None
  /\ NothingRun

SpecTorn == InitTorn /\ [][Next]_vars

\* One uninterrupted run against a service that may answer anything and may
\* fail up to MaxFaults times per trail.
InitService ==
  /\ Init
  /\ terrain = [k \in 1 .. PROFILE_SAMPLES |-> None]

NextService ==
  \/ Orchestrate
  \/ \E k \in 1 .. PROFILE_SAMPLES : \E v \in ServiceValues : RespondData(k, v)
  \/ \E k \in 1 .. PROFILE_SAMPLES : RespondFailure(k)
  \/ \E k \in 1 .. PROFILE_SAMPLES : TimerFires(k)

SpecService == InitService /\ [][NextService]_vars

\* One uninterrupted run against a service that holds the terrain and may
\* fail up to MaxFaults times per trail, over the datasets whose trails after
\* the first are all of one kind.
InitLive ==
  /\ Init
  /\ \A j \in 1 .. NumTrails - 1 : inputFile[j] = inputFile[1]

NextLive ==
  \/ Orchestrate
  \/ \E k \in 1 .. PROFILE_SAMPLES : RespondData(k, terrain[k])
  \/ \E k \in 1 .. PROFILE_SAMPLES : RespondFailure(k)
  \/ \E k \in 1 .. PROFILE_SAMPLES : TimerFires(k)

\* What the scheduling guarantees: while a step is possible, one is taken.
\* The event loop runs the orchestrator when it can go on, every request in
\* flight is answered (with a response or a failure) and every backoff timer
\* fires; each of these makes a step of NextLive happen, so together they
\* imply this weaker condition.
Fairness == WF_vars(NextLive)

SpecLive == InitLive /\ [][NextLive]_vars /\ Fairness

----------------------------------------------------------------------------
(* The pure helpers called on their own, over arguments the orchestrator   *)
(* does not produce: any sample count, geometries of any shape, any        *)
(* supplied length and min/max.                                            *)

\* One coordinate; two equal coordinates; two usable sequences.
PartKinds ==
  {[n |-> 1, len |-> 0], [n |-> 2, len |-> 0], [n |-> 2, len |-> 7],
   [n |-> 3, len |-> 20]}

Geometries ==
  {[parts |-> ps, bearing |-> "N"] :
     ps \in UNION {[1 .. m -> PartKinds] : m \in 0 .. MaxParts}}

Lengths == {None, Some(0), Some(1234), Some(2500)}

OptElevations == {None, Some(0), Some(2000), Some(2004), Some(2500)}

HelperTrails ==
  {[length_miles |-> len, elevation_min_m |-> lo, elevation_max_m |-> hi,
    geometry |-> [parts |-> <<>>, bearing |-> "N"],
    elevation_min |-> None, elevation_max |-> None, elevation_gain |-> None,
    dominant_aspect |-> None, elevation_profile |-> <<>>] :
     len \in Lengths, lo \in OptElevations, hi \in OptElevations}

HelperCalls ==
  {[fn |-> "samplePoints", geometry |-> g, numSamples |-> n, trailLengthMi |-> len] :
     g \in Geometries, n \in 1 .. MaxSamples, len \in Lengths}
  \cup
  {[fn |-> "interpolateProfile", trail |-> t, numPoints |-> n] :
     t \in HelperTrails, n \in (1 .. MaxSamples) \cup {DEFAULT_NUM_POINTS}}

InitHelpers ==
  /\ inputFile = <<>>
  /\ terrain = <<>>
  /\ limits = Build
  /\ call \in {Some(c) : c \in HelperCalls}
  /\ ret = None
  /\ NothingRun

OrchestratorIdle ==
  UNCHANGED <<inputFile, terrain, limits, outputFile, progressFile, pc,
              trails, progress, startIndex, usgsEligible, i, points, b,
              lookups, elevResults, outOfOrder, sampledIdx, pathOf, loaded,
              loadedProgress, finalSaved, summary, runs, faults>>

\* lines 109-166
CallSamplePoints ==
  /\ call # None /\ ret = None
  /\ call[1].fn = "samplePoints"
  /\ ret' = Some(samplePoints(call[1].geometry, call[1].numSamples,
                              call[1].trailLengthMi))
  /\ UNCHANGED call
  /\ OrchestratorIdle

\* lines 169-189
CallInterpolateProfile ==
  /\ call # None /\ ret = None
  /\ call[1].fn = "interpolateProfile"
  /\ ret' = Some(interpolateProfile(call[1].trail, call[1].numPoints))
  /\ UNCHANGED call
  /\ OrchestratorIdle

NextHelpers == CallSamplePoints \/ CallInterpolateProfile

SpecHelpers == InitHelpers /\ [][NextHelpers]_vars

----------------------------------------------------------------------------
(* Properties of runs that crash and resume (Spec).                        *)

Indices == 0 .. Total - 1

\* C1: a run that loaded a progress record with lastProcessedIndex = k >= 0
\* starts its loop at k + 1, never moves back below it, leaves every trail
\* with index <= k as it loaded it (no branch taken, no lookups made for
\* it), and computes the eligible set a from-scratch run over the input
\* file computes.
C1_ResumeAfterLastProcessed ==
  (pc # "start" /\ loadedProgress.lastProcessedIndex >= 0) =>
    /\ startIndex = loadedProgress.lastProcessedIndex + 1
    /\ i >= loadedProgress.lastProcessedIndex + 1
    /\ \A j \in Indices :
         j <= loadedProgress.lastProcessedIndex =>
           /\ trails[j] = loaded[j]
           /\ pathOf[j] = "none"
           /\ sampledIdx # j
    /\ usgsEligible = EligibleSet(inputFile)

\* C1 witness: a resumed run has finished and has enriched a trail after k.
C1_Witness ==
  /\ pc = "done"
  /\ loadedProgress.lastProcessedIndex >= 0
  /\ \E j \in Indices : pathOf[j] # "none"

\* C2: whenever the progress file records lastProcessedIndex = k, the output
\* file exists and holds a non-empty profile for every trail with index <= k
\* (so no progress record is ever on disk ahead of its dataset).
C2_ProgressNeverAheadOfDataset ==
  progressFile # None =>
    /\ outputFile # None
    /\ \A j \in Indices :
         j <= progressFile[1].lastProcessedIndex =>
           Len(outputFile[1][j].elevation_profile) > 0

\* C2 witness: a run crashed with a progress record on disk and the script
\* is about to start again.
C2_Witness ==
  /\ pc = "start" /\ runs > 0
  /\ progressFile # None
  /\ progressFile[1].lastProcessedIndex >= 0

\* C3: a trail that carried a non-empty profile when the run loaded it stays
\* exactly as loaded, takes no branch and has no lookups made for it; and
\* when every loaded trail carried one, no progress counter moves and the
\* dataset the run writes is the dataset it loaded.
C3_SkipIsIdempotent ==
  pc # "start" =>
    /\ \A j \in Indices :
         Len(loaded[j].elevation_profile) > 0 =>
           /\ trails[j] = loaded[j]
           /\ pathOf[j] = "none"
           /\ sampledIdx # j
    /\ (\A j \in Indices : Len(loaded[j].elevation_profile) > 0) =>
         /\ progress = loadedProgress
         /\ pc \in {"loop", "cleanup", "done"}
         /\ pc \in {"cleanup", "done"} => outputFile = Some(loaded)

\* C3 witness: a run over a dataset whose every trail already had a profile
\* has finished.
C3_Witness ==
  /\ pc = "done"
  /\ \A j \in Indices : Len(loaded[j].elevation_profile) > 0

\* C4: a run past the end of its loop has written the final dataset; a
\* finished run leaves no progress file; and the progress file is only ever
\* removed by the clean-up of a run that reached the end of the loop and has
\* done its final save.
C4_ProgressDeletedOnCompletion ==
  /\ [](pc \in {"cleanup", "done"} =>
          finalSaved /\ i >= Total /\ outputFile = Some(trails))
  /\ [](pc = "done" => progressFile = None)
  /\ [][(progressFile # None /\ progressFile' = None) =>
          (pc = "cleanup" /\ pc' = "done" /\ finalSaved /\ i >= Total
           /\ outputFile = Some(trails))]_vars
  /\ [][(pc = "loop" /\ i >= Total /\ pc' # "start") =>
          (pc' = "cleanup" /\ outputFile' = Some(trails)
           /\ progressFile' = progressFile)]_vars

\* C4 witness: a resumed run has finished, so the progress record it loaded
\* has been deleted.
C4_Witness ==
  /\ pc = "done"
  /\ loadedProgress.lastProcessedIndex >= 0
  /\ progressFile = None

----------------------------------------------------------------------------
(* Properties of the lookups and of the profiles (SpecService).            *)

\* The batch a sample position belongs to.
BatchNumber(k) == (k - 1) \div USGS_CONCURRENCY

\* C5: at most USGS_CONCURRENCY requests are in flight (or waiting to be
\* retried), and a lookup of a later batch has started only when every
\* lookup of the earlier batches has returned.
C5_BoundedFanOut ==
  /\ Cardinality({k \in DOMAIN lookups :
                    lookups[k].st \in {"fetch", "backoff"}}) <= USGS_CONCURRENCY
  /\ \A k \in DOMAIN lookups :
       lookups[k].st # "idle" =>
         \A j \in DOMAIN lookups :
           BatchNumber(j) < BatchNumber(k) => lookups[j].st = "done"

\* C5 witness: the second batch is in flight after a full first batch.
C5_Witness ==
  /\ pc = "await"
  /\ \E k \in DOMAIN lookups : BatchNumber(k) = 1 /\ lookups[k].st = "fetch"

\* The sampled points whose lookup returned an elevation, in sample order,
\* each with the distance of its own sample.
RECURSIVE ResolvedInOrder(_, _, _)
ResolvedInOrder(pts, lks, k) ==
  IF k > Len(pts) THEN <<>>
  ELSE IF lks[k].result # None
       THEN <<[distance_mi |-> pts[k].distanceMi,
               elevation_m |-> lks[k].result[1]]>>
            \o ResolvedInOrder(pts, lks, k + 1)
       ELSE ResolvedInOrder(pts, lks, k + 1)

\* C6: whatever order the lookups returned in, the profile the build step
\* stores on a service-derived trail lists the resolved samples by
\* increasing sample index, each with its own sample's distance.
C6_OrderRestored ==
  [][(pc = "batch" /\ pc' \in {"loop", "ckpt_trails"} /\ pathOf'[i] = "usgs") =>
       trails'[i].elevation_profile = ResolvedInOrder(points, lookups, 1)]_vars

\* C6 witness: a trail got a service-derived profile of every sample although
\* a lookup returned before one of a lower index.
C6_Witness ==
  /\ sampledIdx >= 0 /\ outOfOrder
  /\ pathOf[sampledIdx] = "usgs"
  /\ Len(trails[sampledIdx].elevation_profile) = PROFILE_SAMPLES

\* C7: no lookup makes more than MAX_RETRIES attempts; one that returned on a
\* failed request made exactly MAX_RETRIES attempts and returned unknown; a
\* lookup only ever is idle, fetching, backing off or returned with an
\* elevation or unknown.
C7_RetriesExhausted ==
  \A k \in DOMAIN lookups :
    /\ lookups[k].attempt <= MAX_RETRIES
    /\ lookups[k].st \in {"idle", "fetch", "backoff", "done"}
    /\ lookups[k].result = None \/ lookups[k].st = "done"
    /\ (lookups[k].st = "done" /\ lookups[k].last = "fail") =>
         /\ lookups[k].attempt = MAX_RETRIES
         /\ lookups[k].delays = MAX_RETRIES - 1
         /\ lookups[k].result = None

\* C7 witness: a lookup has returned after its last attempt failed.
C7_Witness ==
  \E k \in DOMAIN lookups : lookups[k].st = "done" /\ lookups[k].last = "fail"

\* C8: a lookup whose last response carried the sentinel has returned unknown
\* on that attempt, having waited only after the failures before it; only a
\* failed request is followed by a backoff.
C8_SentinelIsDefinitive ==
  \A k \in DOMAIN lookups :
    /\ lookups[k].last = "nodata" =>
         /\ lookups[k].st = "done"
         /\ lookups[k].result = None
         /\ lookups[k].delays = lookups[k].attempt - 1
    /\ lookups[k].st = "backoff" => lookups[k].last = "fail"

\* C8 witness: the sentinel ended a lookup on its first attempt.
C8_Witness ==
  \E k \in DOMAIN lookups :
    lookups[k].last = "nodata" /\ lookups[k].attempt = 1 /\ lookups[k].st = "done"

\* The sum of the positive consecutive elevation deltas of a profile.
RECURSIVE PositiveDeltaSum(_)
PositiveDeltaSum(profile) ==
  IF Len(profile) < 2 THEN 0
  ELSE LET d == profile[Len(profile)].elevation_m
                - profile[Len(profile) - 1].elevation_m
       IN  PositiveDeltaSum(SubSeq(profile, 1, Len(profile) - 1))
           + (IF d > 0 THEN d ELSE 0)

Enriched == IF pc = "start" THEN {} ELSE {j \in Indices : pathOf[j] # "none"}

\* C9 as stated: on every path the gain is absent, or it is >= 0 and equals
\* the sum of the positive consecutive deltas of the stored profile.
C9_GainFromProfileOnEveryPath ==
  \A j \in Enriched :
    \/ trails[j].elevation_gain = None
    \/ /\ trails[j].elevation_gain[1] >= 0
       /\ trails[j].elevation_gain[1] =
            PositiveDeltaSum(trails[j].elevation_profile)

\* C9 amended: on the service-derived path the gain is >= 0 and equals the
\* sum of the positive consecutive deltas of the stored profile; on the error
\* fallback it is absent; on the non-eligible (interpolated) path it is not
\* derived from the profile: it is absent, or it is half the supplied
\* max - min, rounded, and >= 0 when max >= min.
C9_GainPerPath ==
  \A j \in Enriched :
    LET t == trails[j]
    IN  /\ pathOf[j] = "usgs" =>
             /\ t.elevation_gain # None
             /\ t.elevation_gain[1] >= 0
             /\ t.elevation_gain[1] = PositiveDeltaSum(t.elevation_profile)
        /\ pathOf[j] = "error" => t.elevation_gain = None
        /\ pathOf[j] = "interpolated" =>
             \/ t.elevation_gain = None
             \/ /\ t.elevation_min_m # None /\ t.elevation_max_m # None
                /\ t.elevation_gain =
                     Some(RoundDiv(t.elevation_max_m[1] - t.elevation_min_m[1], 2))
                /\ t.elevation_max_m[1] >= t.elevation_min_m[1] =>
                     t.elevation_gain[1] >= 0

\* C9 witness: a service-derived profile with a descent and a positive gain,
\* beside an interpolated trail whose gain is half its spread.
C9_Witness ==
  /\ \E j \in Enriched :
       /\ pathOf[j] = "usgs"
       /\ trails[j].elevation_gain[1] > 0
       /\ \E k \in 1 .. Len(trails[j].elevation_profile) - 1 :
            trails[j].elevation_profile[k + 1].elevation_m
              < trails[j].elevation_profile[k].elevation_m
  /\ \E j \in Enriched :
       pathOf[j] = "interpolated" /\ trails[j].elevation_gain # None

\* The trail's length in hundredths of a mile as the profile's producer
\* takes it: the supplied length rounded, else the geometry's length for a
\* sampled trail and one mile for an interpolated one.
FullDistance(t, path) ==
  IF path = "usgs"
  THEN IF t.length_miles # None /\ t.length_miles[1] # 0
       THEN RoundDiv(t.length_miles[1], 10)
       ELSE RoundDiv(SumLen(Segments(t.geometry)) * 621371, 100000)
  ELSE IF t.length_miles # None THEN RoundDiv(t.length_miles[1], 10) ELSE 100

NonDecreasing(profile) ==
  \A k \in 1 .. Len(profile) - 1 :
    profile[k].distance_mi <= profile[k + 1].distance_mi

----------------------------------------------------------------------------
(* Properties of the orchestrator's branches (SpecService).                *)

\* The trails of each branch of the run.
OnPath(path) == {j \in Enriched : pathOf[j] = path}

\* C11 as stated: an eligible trail whose lookups gave no known elevation
\* (or whose geometry gave no sample) carries the interpolated profile and no
\* elevation_gain, whatever its min/max are, and it is counted as processed,
\* not as an error.
C11_ZeroUsableLeavesGainAbsent ==
  \A j \in OnPath("fallback") :
    /\ trails[j].elevation_profile = interpolateProfile(trails[j], DEFAULT_NUM_POINTS)
    /\ trails[j].elevation_gain = None
    /\ progress.errorCount = Cardinality(OnPath("error"))

\* C11, what the code does instead: the zero-usable-points fallback stores
\* half the supplied spread as the gain whenever min and max are both
\* supplied and non-zero.
C11_FallbackStoresHalfSpread ==
  \A j \in OnPath("fallback") :
    /\ trails[j].elevation_profile = interpolateProfile(trails[j], DEFAULT_NUM_POINTS)
    /\ trails[j].elevation_gain = HalfSpreadGain(trails[j])
    /\ progress.errorCount = Cardinality(OnPath("error"))

\* C11 witness: every lookup of an eligible trail with supplied min/max came
\* back unknown, and the run went on to its end.
C11_Witness ==
  /\ pc = "done"
  /\ \E j \in OnPath("fallback") :
       /\ trails[j].elevation_min_m # None
       /\ Len(trails[j].geometry.parts) = 3
       /\ trails[j].elevation_gain # None

\* C12 as stated: a trail outside the eligible set carries the interpolated
\* profile, had no point sampled and no lookup made for it, and its gain is
\* half of (max - min) whenever both min and max are supplied, 0 included,
\* and absent otherwise.
C12_NonEligibleHalfSpread ==
  \A j \in Enriched \ usgsEligible :
    LET t == trails[j]
    IN  /\ pathOf[j] = "interpolated"
        /\ t.elevation_profile = interpolateProfile(t, DEFAULT_NUM_POINTS)
        /\ sampledIdx # j
        /\ t.elevation_gain =
             IF t.elevation_min_m # None /\ t.elevation_max_m # None
             THEN Some(RoundDiv(t.elevation_max_m[1] - t.elevation_min_m[1], 2))
             ELSE None

\* C12, what the code does instead: the gain is absent as well when a
\* supplied min or max is 0.
C12_NonEligibleHalfSpreadUnlessZero ==
  \A j \in Enriched \ usgsEligible :
    LET t == trails[j]
    IN  /\ pathOf[j] = "interpolated"
        /\ t.elevation_profile = interpolateProfile(t, DEFAULT_NUM_POINTS)
        /\ sampledIdx # j
        /\ t.elevation_gain =
             IF /\ t.elevation_min_m # None /\ t.elevation_min_m[1] # 0
                /\ t.elevation_max_m # None /\ t.elevation_max_m[1] # 0
             THEN Some(RoundDiv(t.elevation_max_m[1] - t.elevation_min_m[1], 2))
             ELSE None

\* C12 witness: a non-eligible trail whose supplied minimum is 0 has been
\* enriched.
C12_Witness ==
  \E j \in Enriched \ usgsEligible :
    /\ pathOf[j] = "interpolated"
    /\ trails[j].elevation_min_m = Some(0)
    /\ trails[j].elevation_max_m # None

\* C13: a failure thrown while the service-derived profile of trail i is
\* built is caught: in that one step trail i gets the non-empty interpolated
\* profile and no gain, errorCount grows by exactly 1 (no other counter
\* moves), lastProcessedIndex becomes i, and the run goes on (to trail i + 1,
\* through the checkpoint when one is due); the run is never left in any
\* position but those of the loop, the final save and the report.
C13_FailureContained ==
  /\ [][(pc = "batch" /\ pathOf'[i] = "error") =>
          /\ trails'[i].elevation_profile
               = interpolateProfile(trails[i], DEFAULT_NUM_POINTS)
          /\ Len(trails'[i].elevation_profile) > 0
          /\ trails'[i].elevation_gain = None
          /\ \A j \in Indices \ {i} : trails'[j] = trails[j]
          /\ progress' = [progress EXCEPT !.errorCount = @ + 1,
                                          !.lastProcessedIndex = i]
          /\ \/ pc' = "loop" /\ i' = i + 1
             \/ pc' = "ckpt_trails" /\ i' = i /\ CheckpointDue(i, usgsEligible)]_vars
  /\ [][(pc = "ckpt_progress") => (pc' = "loop" /\ i' = i + 1)]_vars
  /\ [](pc \in {"start", "loop", "batch", "await", "ckpt_trails",
                "ckpt_progress", "cleanup", "done"})
  /\ [](\A j \in OnPath("error") :
          /\ j < i \/ (j = i /\ pc \in {"ckpt_trails", "ckpt_progress"})
          /\ progress.lastProcessedIndex >= j
          /\ progress.errorCount >= 1)

\* C13 witness: a run in which the build of a trail failed after a batch had
\* been gathered has gone on and finished.
C13_Witness ==
  /\ pc = "done"
  /\ \E j \in OnPath("error") : j < Total - 1 /\ pathOf[j + 1] # "none"
  /\ progress.errorCount = 1
  /\ progress.usgsCallCount > 0

\* C14 as stated: when every trail of the dataset was enriched by this run,
\* the report's count of service-derived profiles is the number of trails
\* whose profile was built from service results, and its interpolated count
\* is the number of trails whose profile came from the interpolator.
C14_SummaryCounts ==
  (summary # None /\ Enriched = Indices) =>
    /\ summary[1].usgsProfiles = Cardinality(OnPath("usgs"))
    /\ summary[1].interpolated =
         Cardinality(OnPath("interpolated") \cup OnPath("fallback")
                       \cup OnPath("error"))

\* C14, what the code does instead: a profile is reported as service-derived
\* only when it has more than 15 entries, which no profile of this run has;
\* every profile is reported as interpolated.
C14_SummaryReportsNoServiceProfile ==
  (summary # None /\ Enriched = Indices) =>
    /\ summary[1].usgsProfiles = 0
    /\ summary[1].interpolated = Total
    /\ summary[1].withProfile = Total

\* C14 witness: the report of a run that stored a service-derived profile of
\* every sampled point.
C14_Witness ==
  /\ summary # None /\ Enriched = Indices
  /\ \E j \in OnPath("usgs") : Len(trails[j].elevation_profile) = PROFILE_SAMPLES

----------------------------------------------------------------------------
(* Properties of the pure helpers (SpecHelpers).                           *)

\* The parts of a geometry that can be sampled: two coordinates or more and
\* a positive length.
UsableParts(g) == {k \in DOMAIN g.parts : g.parts[k].n >= 2 /\ g.parts[k].len > 0}

\* The total length in hundredths of a mile: the supplied one when there is
\* one (a supplied 0 counts as none), else the sum of the usable parts.
RECURSIVE SumOver(_, _)
SumOver(g, ks) ==
  IF ks = {} THEN 0
  ELSE LET k == CHOOSE x \in ks : TRUE
       IN  g.parts[k].len + SumOver(g, ks \ {k})

KnownOrComputedLength(g, len) ==
  IF len # None /\ len[1] # 0 THEN RoundDiv(len[1], 10)
  ELSE RoundDiv(SumOver(g, UsableParts(g)) * 621371, 100000)

\* C15: for a geometry with a usable part and N >= 1 the sampler returns
\* exactly N points with non-decreasing distances, the first at distance 0
\* and (for N >= 2) the last at the known or computed total length, each
\* point on a usable part; for N = 1 the one point is at distance 0; for a
\* geometry with no usable part it returns the empty list.
C15_SamplerShape ==
  (call # None /\ ret # None /\ call[1].fn = "samplePoints") =>
    LET g == call[1].geometry
        n == call[1].numSamples
        pts == ret[1]
    IN  IF UsableParts(g) = {}
        THEN pts = <<>>
        ELSE /\ Len(pts) = n
             /\ \A k \in 1 .. n - 1 : pts[k].distanceMi <= pts[k + 1].distanceMi
             /\ pts[1].distanceMi = 0
             /\ n >= 2 => pts[n].distanceMi
                            = KnownOrComputedLength(g, call[1].trailLengthMi)
             /\ n = 1 => pts[1].distanceMi = 0
             /\ \A k \in 1 .. n :
                  /\ pts[k].at.seg \in 1 .. Cardinality(UsableParts(g))
                  /\ pts[k].at.off >= 0

\* C15 witness: the sampler has returned MaxSamples points, the last at a
\* positive distance, for a geometry of an unusable and a usable part and no
\* supplied length.
C15_Witness ==
  /\ call # None /\ ret # None /\ call[1].fn = "samplePoints"
  /\ call[1].numSamples = MaxSamples
  /\ call[1].trailLengthMi = None
  /\ Len(call[1].geometry.parts) = 2
  /\ Cardinality(UsableParts(call[1].geometry)) = 1
  /\ Len(ret[1]) = MaxSamples
  /\ ret[1][MaxSamples].distanceMi > 0

\* The effective minimum and maximum of a trail handed to the interpolator.
EffectiveMin(t) == IF t.elevation_min_m # None THEN t.elevation_min_m[1] ELSE 2000

EffectiveMax(t) == IF t.elevation_max_m # None THEN t.elevation_max_m[1] ELSE 2500

\* A peak at position m: non-decreasing up to it and non-increasing after it.
PeakAt(profile, m) ==
  /\ \A k \in 1 .. m - 1 : profile[k].elevation_m <= profile[k + 1].elevation_m
  /\ \A k \in m .. Len(profile) - 1 :
       profile[k].elevation_m >= profile[k + 1].elevation_m

\* C16 as stated: for min <= max and the default point count the profile has
\* that many entries, starts and ends at the minimum, rises to a peak and
\* falls after it, the peak (the middle entries) being the maximum elevation,
\* and is constant when min = max.
C16_TriangleReachesMaximum ==
  (/\ call # None /\ ret # None /\ call[1].fn = "interpolateProfile"
   /\ call[1].numPoints = DEFAULT_NUM_POINTS
   /\ EffectiveMin(call[1].trail) <= EffectiveMax(call[1].trail)) =>
    LET lo == EffectiveMin(call[1].trail)
        hi == EffectiveMax(call[1].trail)
        profile == ret[1]
        mid == DEFAULT_NUM_POINTS \div 2
    IN  /\ Len(profile) = DEFAULT_NUM_POINTS
        /\ profile[1].elevation_m = lo
        /\ profile[Len(profile)].elevation_m = lo
        /\ PeakAt(profile, mid)
        /\ profile[mid].elevation_m = hi \/ profile[mid + 1].elevation_m = hi
        /\ lo = hi => \A k \in DOMAIN profile : profile[k].elevation_m = lo

\* C16, what the code does instead: with ten points no entry lies at the
\* midpoint; the two middle entries sit at 8/9 of the way up, which after
\* rounding is below the maximum as soon as max - min >= 5.
C16_TrianglePeaksBelowMaximum ==
  (/\ call # None /\ ret # None /\ call[1].fn = "interpolateProfile"
   /\ call[1].numPoints = DEFAULT_NUM_POINTS
   /\ EffectiveMin(call[1].trail) <= EffectiveMax(call[1].trail)) =>
    LET lo == EffectiveMin(call[1].trail)
        hi == EffectiveMax(call[1].trail)
        profile == ret[1]
        mid == DEFAULT_NUM_POINTS \div 2
    IN  /\ Len(profile) = DEFAULT_NUM_POINTS
        /\ profile[1].elevation_m = lo
        /\ profile[Len(profile)].elevation_m = lo
        /\ PeakAt(profile, mid)
        /\ profile[mid].elevation_m = lo + RoundDiv(8 * (hi - lo), 9)
        /\ profile[mid + 1].elevation_m = profile[mid].elevation_m
        /\ hi - lo >= 5 => \A k \in DOMAIN profile : profile[k].elevation_m < hi
        /\ lo = hi => \A k \in DOMAIN profile : profile[k].elevation_m = lo

\* C16 witness: the interpolator has returned the ten-point profile of a
\* trail with min 2000 and max 2500.
C16_Witness ==
  /\ call # None /\ ret # None /\ call[1].fn = "interpolateProfile"
  /\ call[1].numPoints = DEFAULT_NUM_POINTS
  /\ call[1].trail.elevation_min_m = Some(2000)
  /\ call[1].trail.elevation_max_m = Some(2500)
  /\ Len(ret[1]) = DEFAULT_NUM_POINTS

----------------------------------------------------------------------------
(* Properties of the checkpoints and of the eligible set (Spec).           *)

\* The trail's rank since the run started: the first trail of the run has
\* rank 1.
RankSinceStart(j) == j - startIndex + 1

\* The branches of an eligible trail: the service was tried for it.
ServicePaths == {"usgs", "fallback", "error"}

\* C17: the step that finishes trail i goes to a checkpoint exactly when the
\* trail went through the eligible (service) branch and its rank since the
\* run started is a multiple of CHECKPOINT_INTERVAL; a checkpoint writes the
\* dataset and then the progress record; a skipped or interpolated-only
\* trail is followed by no checkpoint; and no file is written during the
\* loop outside a checkpoint.  Fresh and resumed runs alike: a run resumes
\* at a multiple of the interval, so the rank since its start and the
\* position in the dataset agree modulo the interval.
C17_CheckpointTrigger ==
  /\ [][(pc \in {"loop", "batch"} /\ i < Total /\ pc' \notin {"start", "batch"}) =>
          (pc' = "ckpt_trails" <=>
             /\ pathOf'[i] \in ServicePaths
             /\ RankSinceStart(i) % CHECKPOINT_INTERVAL = 0)]_vars
  /\ [](pc \in {"ckpt_trails", "ckpt_progress"} =>
          /\ pathOf[i] \in ServicePaths
          /\ i \in usgsEligible
          /\ RankSinceStart(i) % CHECKPOINT_INTERVAL = 0
          /\ progress.lastProcessedIndex = i)
  /\ [](pc # "start" => startIndex % CHECKPOINT_INTERVAL = 0)
  /\ [][(pc = "ckpt_trails" /\ pc' # "start") =>
          (pc' = "ckpt_progress" /\ outputFile' = Some(trails))]_vars
  /\ [][(pc = "ckpt_progress" /\ pc' # "start") =>
          (pc' = "loop" /\ progressFile' = Some(progress)
           /\ outputFile = Some(trails))]_vars
  /\ [][(outputFile' # outputFile \/ progressFile' # progressFile) =>
          \/ pc \in {"ckpt_trails", "ckpt_progress", "cleanup"}
          \/ pc = "loop" /\ i >= Total]_vars

\* C17 witness: a resumed run is under way, so a fresh run wrote a checkpoint
\* after an eligible trail, and it has enriched a trail without one.
C17_Witness ==
  /\ pc = "loop" /\ runs > 0
  /\ loadedProgress.lastProcessedIndex >= 0
  /\ loadedProgress.lastProcessedIndex \in usgsEligible
  /\ \E j \in Enriched : pathOf[j] = "interpolated"

----------------------------------------------------------------------------
(* Termination (SpecLive).                                                 *)

\* C19: with every request eventually answered and every timer eventually
\* fired, the run reaches the final save and the clean-up, whatever the
\* service answers and however it fails; no lookup makes more than
\* MAX_RETRIES attempts or waits more than MAX_RETRIES - 1 times; and the
\* loop never returns to a trail: it comes back to its head only with the
\* next index.
C19_Termination ==
  /\ <>(pc = "done" /\ finalSaved /\ outputFile = Some(trails)
        /\ progressFile = None)
  /\ [](\A k \in DOMAIN lookups :
          /\ lookups[k].attempt <= MAX_RETRIES
          /\ lookups[k].delays <= MAX_RETRIES - 1)
  /\ [][(pc # "start" /\ pc' = "loop") => i' = i + 1]_vars
  /\ [][i' = i \/ i' = i + 1 \/ pc = "start"]_vars
  /\ [](pc # "start" => i <= Total)

\* C19 witness: a run has finished although the lookups of a trail failed
\* MaxFaults times.
C19_Witness ==
  /\ pc = "done"
  /\ progress.usgsCallCount > 0
  /\ \E j \in OnPath("fallback") : TRUE

----------------------------------------------------------------------------
(* Properties of the interleaving of calls and writes (SpecService).       *)

\* The lookups whose request is out or whose retry is pending.
InFlight == {k \in DOMAIN lookups : lookups[k].st \in {"fetch", "backoff"}}

\* C20: a lookup is in flight only while the orchestrator awaits the batch of
\* the one trail it is enriching, the trail the sampled points belong to; a
\* step that writes the dataset file or the progress file is taken with no
\* lookup in flight; the orchestrator leaves a trail's batches, and moves to
\* another trail, only with no lookup in flight; and a step changes the
\* record of no trail but the current one.
C20_NoWriteDuringCalls ==
  /\ [](InFlight # {} =>
          /\ pc = "await"
          /\ i < Total /\ sampledIdx = i /\ pathOf[i] = "none"
          /\ Len(lookups) = Len(points))
  /\ [][(outputFile' # outputFile \/ progressFile' # progressFile) =>
          (InFlight = {} /\ InFlight' = {})]_vars
  /\ [][((pc \in {"batch", "await"} /\ pc' \notin {"batch", "await"}) \/ i' # i) =>
          (InFlight = {} /\ InFlight' = {})]_vars
  /\ [][pc # "start" =>
          \A j \in Indices \ {i} : trails'[j] = trails[j]]_vars

\* C20 witness: a checkpoint is being written after a trail whose every
\* sampled point was looked up.
C20_Witness ==
  /\ pc = "ckpt_progress"
  /\ pathOf[i] = "usgs"
  /\ outputFile = Some(trails)
  /\ progress.usgsCallCount = PROFILE_SAMPLES

----------------------------------------------------------------------------
(* Properties of the resolved fields and counters (SpecService).           *)

\* The least and the greatest elevation of a non-empty profile.
LowestOf(profile) ==
  CHOOSE m \in {profile[k].elevation_m : k \in DOMAIN profile} :
    \A k \in DOMAIN profile : m <= profile[k].elevation_m

HighestOf(profile) ==
  CHOOSE m \in {profile[k].elevation_m : k \in DOMAIN profile} :
    \A k \in DOMAIN profile : m >= profile[k].elevation_m

\* C21: on every processed trail a supplied minimum (maximum) is the
\* resolved one, whatever the profile holds; an absent one is replaced by the
\* least (greatest) elevation of the profile on the service-derived path and
\* stays absent on every other path.
C21_MinMaxResolution ==
  \A j \in Enriched :
    LET t == trails[j]
    IN  /\ t.elevation_min_m # None => t.elevation_min = t.elevation_min_m
        /\ t.elevation_max_m # None => t.elevation_max = t.elevation_max_m
        /\ t.elevation_min_m = None =>
             t.elevation_min = IF pathOf[j] = "usgs"
                               THEN Some(LowestOf(t.elevation_profile)) ELSE None
        /\ t.elevation_max_m = None =>
             t.elevation_max = IF pathOf[j] = "usgs"
                               THEN Some(HighestOf(t.elevation_profile)) ELSE None

\* C21 witness: a service-derived profile that lies wholly above the supplied
\* minimum and below the supplied maximum, which are kept.
C21_Witness ==
  \E j \in OnPath("usgs") :
    /\ trails[j].elevation_min_m # None /\ trails[j].elevation_max_m # None
    /\ trails[j].elevation_min = trails[j].elevation_min_m
    /\ trails[j].elevation_max = trails[j].elevation_max_m
    /\ LowestOf(trails[j].elevation_profile) > trails[j].elevation_min_m[1]
    /\ HighestOf(trails[j].elevation_profile) < trails[j].elevation_max_m[1]

\* The sampled points whose lookup returned a known elevation.
ResolvedSamples(lks) == {k \in DOMAIN lks : lks[k].result # None}

\* The gain over the resolved points taken in sample order: each resolved
\* point is compared with the resolved point before it, however many
\* unknown points lie between the two.
RECURSIVE GainAcross(_, _)
GainAcross(lks, ks) ==
  IF ks = {} THEN 0
  ELSE LET k == CHOOSE x \in ks : \A y \in ks : y <= x
           earlier == {y \in ResolvedSamples(lks) : y < k}
           p == CHOOSE x \in earlier : \A y \in earlier : y <= x
           rise == IF earlier = {} THEN 0
                   ELSE lks[k].result[1] - lks[p].result[1]
       IN  GainAcross(lks, ks \ {k}) + (IF rise > 0 THEN rise ELSE 0)

\* C22: the step that stores a service-derived profile stores one entry per
\* sampled point whose lookup returned an elevation and none for the others,
\* the entries in sample order with the point's distance and elevation, and
\* stores as the gain the sum of the positive differences between each
\* resolved point and the resolved point before it.
C22_GainOverResolvedPoints ==
  [][(pc = "batch" /\ pc' \in {"loop", "ckpt_trails"} /\ pathOf'[i] = "usgs") =>
       LET profile == trails'[i].elevation_profile
           resolved == ResolvedSamples(lookups)
       IN  /\ Len(profile) = Cardinality(resolved)
           /\ \A k \in resolved :
                LET n == Cardinality({y \in resolved : y <= k})
                IN  /\ profile[n].elevation_m = lookups[k].result[1]
                    /\ profile[n].distance_mi = points[k].distanceMi
           /\ trails'[i].elevation_gain = Some(GainAcross(lookups, resolved))]_vars

\* C22 witness: a service-derived profile of the first and the last sampled
\* point only, the point between them unknown, with the rise from the first
\* to the last as its gain.
C22_Witness ==
  \E j \in OnPath("usgs") :
    LET profile == trails[j].elevation_profile
    IN  /\ PROFILE_SAMPLES = 3
        /\ Len(profile) = 2
        /\ profile[1].distance_mi = 0
        /\ profile[2].distance_mi = FullDistance(trails[j], "usgs")
        /\ profile[2].elevation_m > profile[1].elevation_m
        /\ trails[j].elevation_gain
             = Some(profile[2].elevation_m - profile[1].elevation_m)

----------------------------------------------------------------------------
(* Crash and resume against a deterministic service (SpecResume).          *)

\* What the service holds for the sampled points of a trail, as lookup
\* results.
TerrainResults(pts, terr) ==
  [k \in 1 .. Len(pts) |->
     [idx |-> k - 1, distanceMi |-> pts[k].distanceMi,
      elevation |-> IF IsKnownValue(terr[k]) THEN Some(RoundValue(terr[k]))
                    ELSE None]]

\* The record of trail j after one uninterrupted run over the input.
UninterruptedRecord(input, terr, j) ==
  IF HasProfile(input[j]) THEN input[j]
  ELSE IF j \in EligibleSet(input)
       THEN WithUsgsProfile(
              WithBaseFields(input[j]),
              TerrainResults(samplePoints(input[j].geometry, PROFILE_SAMPLES,
                                          input[j].length_miles), terr))
       ELSE WithInterpolated(WithBaseFields(input[j]))

\* C23: a finished run, whether it is the first run, a run resumed from a
\* checkpoint after a crash, or a run started afresh after a crash that left
\* no progress record, has written the trail records that one uninterrupted
\* run over the input writes.
C23_CrashResumeEquivalence ==
  pc = "done" =>
    /\ outputFile # None
    /\ \A j \in Indices :
         outputFile[1][j] = UninterruptedRecord(inputFile, terrain, j)

\* C23 witness: a run resumed after a crash has finished, and the trail its
\* progress record named carries the service-derived profile the crashed run
\* built.
C23_Witness ==
  /\ pc = "done" /\ runs > 0
  /\ loadedProgress.lastProcessedIndex >= 0
  /\ outputFile # None
  /\ Len(outputFile[1][loadedProgress.lastProcessedIndex].elevation_profile)
       = PROFILE_SAMPLES
  /\ \E j \in Indices : pathOf[j] = "interpolated"

----------------------------------------------------------------------------
(* A run that finds a progress record and no output file (SpecStale).      *)

\* C24 as stated: once a run has finished, every trail of the output
\* dataset carries a non-empty profile, also when the run started from a
\* progress record with lastProcessedIndex = k >= 0 and no output file.
C24_EveryTrailProfiled ==
  pc = "done" =>
    /\ outputFile # None
    /\ \A j \in Indices : Len(outputFile[1][j].elevation_profile) > 0

\* C24, what the code does instead: the run that finds the record and no
\* output file starts at k + 1 over the input's trails, so the trails up to
\* k leave the run as the input had them, without a profile unless the input
\* supplied one; the trails after k are profiled.
C24_TrailsBeforeResumePointUntouched ==
  (pc = "done" /\ runs = 0) =>
    /\ outputFile # None
    /\ \A j \in Indices :
         IF j <= loadedProgress.lastProcessedIndex
         THEN outputFile[1][j] = inputFile[j]
         ELSE Len(outputFile[1][j].elevation_profile) > 0

\* C24 witness: a run started from a progress record and no output file has
\* finished after enriching the trails behind the record's index.
C24_Witness ==
  /\ pc = "done" /\ runs = 0
  /\ loadedProgress.lastProcessedIndex = 0
  /\ \A j \in Indices \ {0} : pathOf[j] # "none"
  /\ outputFile # None

----------------------------------------------------------------------------
(* Properties of the progress counters (SpecService, Spec).                *)

\* The lookups that return in a step.
Returning == {k \in DOMAIN lookups \cap DOMAIN lookups' :
                lookups[k].st # "done" /\ lookups'[k].st = "done"}

\* The number of points sampled for a trail of the dataset as loaded.
SampledPoints(j) ==
  Len(samplePoints(loaded[j].geometry, PROFILE_SAMPLES, loaded[j].length_miles))

RECURSIVE SumSampled(_)
SumSampled(js) ==
  IF js = {} THEN 0
  ELSE LET j == CHOOSE x \in js : TRUE
       IN  SampledPoints(j) + SumSampled(js \ {j})

\* C25: a step adds to usgsCallCount the number of lookups that return in
\* it, which is one for a lookup's return and none for a failed attempt, a
\* backoff or any step of the orchestrator; while a trail's batches are
\* gathered the counter stands at the lookups that have returned; and once
\* the eligible trails processed so far have finished without a caught
\* failure, it stands at the number of their sampled points.
C25_OneCallPerLookup ==
  /\ [][/\ progress'.usgsCallCount = progress.usgsCallCount + Cardinality(Returning)
        /\ Cardinality(Returning) <= 1]_vars
  /\ []((pc \in {"batch", "await"} /\ OnPath("error") = {}) =>
          progress.usgsCallCount
            = SumSampled(OnPath("usgs") \cup OnPath("fallback"))
              + Cardinality({k \in DOMAIN lookups : lookups[k].st = "done"}))
  /\ []((pc \notin {"batch", "await"} /\ OnPath("error") = {}) =>
          progress.usgsCallCount
            = SumSampled(OnPath("usgs") \cup OnPath("fallback")))

\* C25 witness: every batch of a trail of three sampled points has been
\* gathered after MaxFaults failed attempts and a return out of sample order,
\* and the counter stands at three.
C25_Witness ==
  /\ pc = "batch" /\ b >= Len(points)
  /\ Len(points) = PROFILE_SAMPLES
  /\ faults = MaxFaults
  /\ outOfOrder
  /\ progress.usgsCallCount = PROFILE_SAMPLES

----------------------------------------------------------------------------
(* Properties of the processed and error counters (SpecTorn, Spec).        *)

\* The trails with index <= k that the input holds without a profile and
\* ts holds with one: those the pipeline has enriched, in the run that
\* wrote ts or in a run before it.
EnrichedUpTo(ts, k) ==
  {j \in Indices : j <= k /\ ~HasProfile(inputFile[j]) /\ HasProfile(ts[j])}

\* The first half of C26: a step that enriches trail j adds one to exactly
\* one of processedCount and errorCount, leaves the other as it is, and
\* moves lastProcessedIndex up to j; no other step of a run moves any of
\* the three.
C26_OneCounterPerTrail ==
  [][(pc # "start" /\ pc' # "start") =>
       /\ \A j \in Indices :
            (pathOf[j] = "none" /\ pathOf'[j] # "none") =>
              /\ j = i
              /\ \/ /\ progress'.processedCount = progress.processedCount + 1
                    /\ progress'.errorCount = progress.errorCount
                 \/ /\ progress'.processedCount = progress.processedCount
                    /\ progress'.errorCount = progress.errorCount + 1
              /\ progress.lastProcessedIndex < j
              /\ progress'.lastProcessedIndex = j
       /\ pathOf' = pathOf =>
            /\ progress'.processedCount = progress.processedCount
            /\ progress'.errorCount = progress.errorCount
            /\ progress'.lastProcessedIndex = progress.lastProcessedIndex]_vars

\* The second half of C26: the progress record on disk counts, as processed
\* or failed, every trail up to its lastProcessedIndex that the pipeline has
\* enriched; the output file, written before the record, holds them.
C26_PersistedCountsMatch ==
  (progressFile # None /\ outputFile # None) =>
    progressFile[1].processedCount + progressFile[1].errorCount
      = Cardinality(EnrichedUpTo(outputFile[1],
                                 progressFile[1].lastProcessedIndex))

\* C26: every enriched trail moves exactly one of the two counters by one
\* and sets lastProcessedIndex, which strictly increases; and in every
\* progress record persisted at a checkpoint the two counters add up to the
\* number of trails up to lastProcessedIndex enriched over all the runs.
C26_CounterAccounting ==
  /\ C26_OneCounterPerTrail
  /\ []C26_PersistedCountsMatch

\* C26 witness: a resumed run has written a progress record at a checkpoint
\* after skipping a trail that an earlier run enriched and that the record
\* it loaded did not cover.
C26_Witness ==
  /\ runs > 0
  /\ pc = "loop"
  /\ progressFile = Some(progress)
  /\ progress.lastProcessedIndex > loadedProgress.lastProcessedIndex
  /\ loadedProgress.lastProcessedIndex >= 0
  /\ \E j \in Indices :
       /\ j > loadedProgress.lastProcessedIndex
       /\ j < progress.lastProcessedIndex
       /\ HasProfile(loaded[j])
       /\ ~HasProfile(inputFile[j])

====
